---------------------------- MODULE Spec2Model ----------------------------
(***************************************************************************)
(* Model of the RAG-Chatbot frontend: the App component (conversation      *)
(* collection, active conversation, localStorage mirror), the ChatWindow   *)
(* component (displayed messages, isLoading, handleSend, handleClearChat)  *)
(* and the FileUploader component (uploading, uploadFile).                 *)
(*                                                                         *)
(* Every event handler runs to completion (single-threaded event loop), so *)
(* a handler is one action; an async handler is split at its await: the    *)
(* part before the await is one action that records the request together   *)
(* with the values its closure captured, and each outcome of the request   *)
(* (response, failure) is a further action that runs the continuation with *)
(* the captured values.                                                     *)
(*                                                                         *)
(* Strings the code inspects character by character (chat names, the chat  *)
(* input) are sequences of one-character strings.  Message timestamps are  *)
(* not modelled.  The effect of ChatWindow that reloads the displayed      *)
(* messages depends on the identity of the messages array; the model       *)
(* compares the arrays by value.                                           *)
(***************************************************************************)
EXTENDS Integers, Sequences, FiniteSets, TLC

\* Bounds of the model.
MaxId == 2          \* conversation ids are 1..MaxId (fresh id per creation)
MaxMsgs == 2        \* a query is sent only while the chat stores fewer messages
MaxResets == 1      \* reset requests in flight at the same time
MaxRequests == 2    \* requests (query, upload, reset) sent in one run

VARIABLES
  conversations,         \* App: useState conversations
  activeConversationId,  \* App: useState activeConversationId
  rag_conversations,     \* localStorage item 'rag_conversations'
  rag_active_chat,       \* localStorage item 'rag_active_chat'
  messages,              \* ChatWindow: useState messages (displayed)
  isLoading,             \* ChatWindow: useState isLoading
  uploading,             \* FileUploader: useState uploading
  queries,               \* /query requests in flight, with captured values
  uploads,               \* /upload requests in flight, with captured values
  resets,                \* /reset requests in flight, with captured values
  nextId,                \* source of fresh ids (Date.now() / Math.random())
  notice,                \* the alert() or FileUploader error the last handler
                         \* raised, "none" when it raised none
  requestsSent,          \* number of requests sent so far (bounds the run)
  uploaded               \* history: chat ids a successful /upload response
                         \* arrived for

vars == <<conversations, activeConversationId, rag_conversations,
          rag_active_chat, messages, isLoading, uploading, queries, uploads,
          resets, nextId, notice, requestsSent, uploaded>>

-----------------------------------------------------------------------------
\* Strings as character sequences.

Str_NewChat == <<"N", "e", "w", " ", "C", "h", "a", "t">>
Str_default == <<"d", "e", "f", "a", "u", "l", "t">>

\* String.prototype.trim: white space characters
IsSpace(ch) == ch \in {" ", "\t", "\n"}

\* the character class [a-zA-Z0-9\s\-_] of createConversation
IsNameChar(ch) ==
  \/ ch \in {"a", "b", "c", "d", "e", "f", "g", "h", "i", "j", "k", "l", "m",
             "n", "o", "p", "q", "r", "s", "t", "u", "v", "w", "x", "y", "z"}
  \/ ch \in {"A", "B", "C", "D", "E", "F", "G", "H", "I", "J", "K", "L", "M",
             "N", "O", "P", "Q", "R", "S", "T", "U", "V", "W", "X", "Y", "Z"}
  \/ ch \in {"0", "1", "2", "3", "4", "5", "6", "7", "8", "9"}
  \/ IsSpace(ch)
  \/ ch \in {"-", "_"}

RECURSIVE TrimStart(_)
TrimStart(s) ==
  IF s = <<>> THEN <<>>
  ELSE IF IsSpace(Head(s)) THEN TrimStart(Tail(s)) ELSE s

RECURSIVE TrimEnd(_)
TrimEnd(s) ==
  IF s = <<>> THEN <<>>
  ELSE IF IsSpace(s[Len(s)]) THEN TrimEnd(SubSeq(s, 1, Len(s) - 1)) ELSE s

\* mutant of Trim: nothing is trimmed
Trim_none(s) == s

\* String.prototype.trim
Trim(s) == TrimEnd(TrimStart(s))

\* s.replace(/[^a-zA-Z0-9\s\-_]/g, '')
RECURSIVE ReplaceInvalid(_)
ReplaceInvalid(s) ==
  IF s = <<>> THEN <<>>
  ELSE IF IsNameChar(Head(s)) THEN <<Head(s)>> \o ReplaceInvalid(Tail(s))
       ELSE ReplaceInvalid(Tail(s))

\* sanitizedName of createConversation
SanitizedName(chatName) == ReplaceInvalid(Trim(chatName))

-----------------------------------------------------------------------------
\* Inputs.

\* results of prompt('Enter a name for this chat:'): cancelled, or a text
PromptResults ==
  {[ok |-> FALSE, text |-> <<>>]} \cup
  {[ok |-> TRUE, text |-> t] :
     t \in {<<>>, <<" ">>, <<"#">>, <<" ", "a", "#">>}}

\* texts typed into the chat input
Inputs == {<<>>, <<" ">>, <<" ", "h", "i">>}

\* answer text of a /query response
Str_answer == <<"o", "k">>
\* text of the error message of a failed /query
Str_error == <<"e", "r", "r">>

-----------------------------------------------------------------------------
\* Conversations and messages.

DefaultConversation(id) ==
  [id |-> id, title |-> Str_NewChat, name |-> Str_default,
   hasDocuments |-> FALSE, messages |-> <<>>]

Ids(convs) == {convs[i].id : i \in 1..Len(convs)}

\* conversations.find(c => c.id === id): the position, 0 when absent
FindIndex(convs, id) ==
  IF id \in Ids(convs)
  THEN CHOOSE i \in 1..Len(convs) :
         /\ convs[i].id = id
         /\ \A j \in 1..(i - 1) : convs[j].id # id
  ELSE 0

\* activeConversation?.messages || []
InitialMessages(convs, id) ==
  IF FindIndex(convs, id) = 0 THEN <<>> ELSE convs[FindIndex(convs, id)].messages

\* activeConversation?.hasDocuments || false
HasDocumentsProp(convs, id) ==
  IF FindIndex(convs, id) = 0 THEN FALSE
  ELSE convs[FindIndex(convs, id)].hasDocuments

\* activeConversation?.name
ChatNameProp(convs, id) ==
  IF FindIndex(convs, id) = 0 THEN <<>> ELSE convs[FindIndex(convs, id)].name

\* mutant of FilterOut: the predicate of the filter is inverted
FilterOut_inverted(convs, id) ==
  SelectSeq(convs, LAMBDA c : c.id = id)

\* conversations.filter(c => c.id !== id)
RECURSIVE FilterOut(_, _)
FilterOut(convs, id) ==
  IF convs = <<>> THEN <<>>
  ELSE IF Head(convs).id # id
       THEN <<Head(convs)>> \o FilterOut(Tail(convs), id)
       ELSE FilterOut(Tail(convs), id)

\* mutant of MarkUploaded: the conversation that is active when the response
\* arrives is marked
MarkUploaded_active(convs, id) ==
  [i \in 1..Len(convs) |->
     IF convs[i].id = activeConversationId
     THEN [convs[i] EXCEPT !.hasDocuments = TRUE]
     ELSE convs[i]]

\* conversations.map(c => c.id === id ? { ...c, hasDocuments: true } : c)
MarkUploaded(convs, id) ==
  [i \in 1..Len(convs) |->
     IF convs[i].id = id THEN [convs[i] EXCEPT !.hasDocuments = TRUE]
     ELSE convs[i]]

\* mutant of AppendMessage: a message for an id that is not in the
\* collection makes a conversation of that id
AppendMessage_upsert(convs, chatId, message) ==
  IF chatId \in {convs[i].id : i \in 1..Len(convs)}
  THEN [i \in 1..Len(convs) |->
          IF convs[i].id = chatId
          THEN [convs[i] EXCEPT !.messages = Append(@, message)]
          ELSE convs[i]]
  ELSE Append(convs, [id |-> chatId, title |-> Str_NewChat,
                      name |-> Str_default, hasDocuments |-> FALSE,
                      messages |-> <<message>>])

\* mutant of AppendMessage: the message goes to the conversation that is
\* active when it arrives
AppendMessage_toActive(convs, chatId, message) ==
  [i \in 1..Len(convs) |->
     IF convs[i].id = activeConversationId
     THEN [convs[i] EXCEPT !.messages = Append(@, message)]
     ELSE convs[i]]

\* prevConvs.map(c => c.id === chatId ? { ...c, messages: [...c.messages, message] } : c)
AppendMessage(convs, chatId, message) ==
  [i \in 1..Len(convs) |->
     IF convs[i].id = chatId
     THEN [convs[i] EXCEPT !.messages = Append(@, message)]
     ELSE convs[i]]

\* mutant of ResetConversation: the messages are kept
ResetConversation_keepMessages(convs, id) ==
  [i \in 1..Len(convs) |->
     IF convs[i].id = id
     THEN [convs[i] EXCEPT !.hasDocuments = FALSE]
     ELSE convs[i]]

\* conversations.map(c => c.id === id ? { ...c, hasDocuments: false, messages: [] } : c)
ResetConversation(convs, id) ==
  [i \in 1..Len(convs) |->
     IF convs[i].id = id
     THEN [convs[i] EXCEPT !.hasDocuments = FALSE, !.messages = <<>>]
     ELSE convs[i]]

UserMessage(text) == [text |-> text, isUser |-> TRUE]
BotMessage(text) == [text |-> text, isUser |-> FALSE, sources |-> <<>>]
\* mutant of ErrorMessage: the isError flag is missing
ErrorMessage_noFlag(text) == [text |-> text, isUser |-> FALSE]
ErrorMessage(text) == [text |-> text, isUser |-> FALSE, isError |-> TRUE]

\* msg.isError as the renderer reads it (undefined is falsy)
IsError(m) == "isError" \in DOMAIN m /\ m.isError

-----------------------------------------------------------------------------
\* localStorage.

\* A localStorage item is absent ([json |-> "absent"], getItem gives null), a
\* text JSON.parse throws on ([json |-> "garbage"]), or a JSON text
\* ([json |-> "ok", doc |-> d]).  The JSON text of an object is the sequence
\* of its members <<key, value>> in insertion order, the JSON text of an
\* array the sequence of the texts of its elements.

\* the members JSON.stringify writes for a message (userMessage, botMessage,
\* errorMessage of handleSend)
MessageMembers(m) ==
  <<<<"text", m.text>>, <<"isUser", m.isUser>>>> \o
  (IF "sources" \in DOMAIN m THEN <<<<"sources", m.sources>>>> ELSE <<>>) \o
  (IF "isError" \in DOMAIN m THEN <<<<"isError", m.isError>>>> ELSE <<>>)

\* mutant of ConversationMembers: the messages are written as an empty array
ConversationMembers_noMessages(c) ==
  <<<<"id", c.id>>, <<"title", c.title>>, <<"name", c.name>>,
    <<"hasDocuments", c.hasDocuments>>, <<"messages", <<>>>>>>

\* the members JSON.stringify writes for a conversation
ConversationMembers(c) ==
  <<<<"id", c.id>>, <<"title", c.title>>, <<"name", c.name>>,
    <<"hasDocuments", c.hasDocuments>>,
    <<"messages", [j \in 1..Len(c.messages) |-> MessageMembers(c.messages[j])]>>>>

\* JSON.stringify(conversations)
JsonStringify(convs) ==
  [json |-> "ok", doc |-> [i \in 1..Len(convs) |-> ConversationMembers(convs[i])]]

\* the object JSON.parse builds from the members of an object text; of two
\* members with the same key the later one wins
ObjectOf(members) ==
  [k \in {members[i][1] : i \in 1..Len(members)} |->
     members[CHOOSE i \in 1..Len(members) :
               /\ members[i][1] = k
               /\ \A j \in (i + 1)..Len(members) : members[j][1] # k][2]]

\* JSON.parse of the text of an array of conversations
JsonParse(doc) ==
  [i \in 1..Len(doc) |->
     LET c == ObjectOf(doc[i])
     IN [k \in DOMAIN c |->
           IF k = "messages"
           THEN [j \in 1..Len(c[k]) |-> ObjectOf(c[k][j])]
           ELSE c[k]]]

\* localStorage.setItem(key, id) stores String(id)
ItemOfId(id) == [item |-> id]

\* the initializer of useState conversations
LoadConversations(saved, freshId) ==
  IF saved.json = "ok" THEN JsonParse(saved.doc)
  ELSE <<DefaultConversation(freshId)>>

\* saved || conversations[0].id
LoadActive(savedActive, convs) ==
  IF savedActive.item # 0 THEN savedActive.item ELSE convs[1].id

-----------------------------------------------------------------------------
\* Rendering: what follows every state change of App.

\* mutant of EffectRuns: chatId is missing from the dependencies of the effect
EffectRuns_noChatId(c2, a2, rendered) ==
  /\ rendered
  /\ \/ FindIndex(c2, a2) = 0
     \/ FindIndex(conversations, a2) = 0
     \/ InitialMessages(c2, a2) # InitialMessages(conversations, a2)

\* the effect [chatId, initialMessages] of ChatWindow runs when the active id
\* changed or the messages array handed down is a new one; when the active
\* conversation is missing every render of App hands down a new []
EffectRuns(c2, a2, rendered) ==
  \/ a2 # activeConversationId
  \/ /\ rendered
     /\ \/ FindIndex(c2, a2) = 0
        \/ FindIndex(conversations, a2) = 0
        \/ InitialMessages(c2, a2) # InitialMessages(conversations, a2)

\* mutant of Commit: the effects that save to localStorage do not run
Commit_noSave(c2, a2, local, rendered) ==
  /\ conversations' = c2
  /\ activeConversationId' = a2
  /\ messages' = IF EffectRuns(c2, a2, rendered)
                 THEN InitialMessages(c2, a2) ELSE local
  /\ UNCHANGED <<rag_conversations, rag_active_chat>>

\* c2, a2: the new App state; local: the displayed messages the handler set;
\* rendered: App rendered again (one of its states was set to a new value)
Commit(c2, a2, local, rendered) ==
  /\ conversations' = c2
  /\ activeConversationId' = a2
  /\ messages' = IF EffectRuns(c2, a2, rendered)
                 THEN InitialMessages(c2, a2) ELSE local
  /\ rag_conversations' = JsonStringify(c2)
  /\ rag_active_chat' = ItemOfId(a2)

Init ==
  /\ conversations = <<DefaultConversation(1)>>
  /\ activeConversationId = 1
  /\ rag_conversations = JsonStringify(conversations)
  /\ rag_active_chat = ItemOfId(activeConversationId)
  /\ messages = <<>>
  /\ isLoading = FALSE
  /\ uploading = FALSE
  /\ queries = <<>>
  /\ uploads = <<>>
  /\ resets = <<>>
  /\ nextId = 2
  /\ notice = "none"
  /\ requestsSent = 0
  /\ uploaded = {}

-----------------------------------------------------------------------------
\* mutant of createConversation: the new conversation is not made active
createConversation_keepActive(chatName) ==
  /\ nextId <= MaxId
  /\ IF ~chatName.ok \/ Trim(chatName.text) = <<>>
     THEN /\ notice' = "Chat name is required!"
          /\ UNCHANGED <<conversations, activeConversationId,
                         rag_conversations, rag_active_chat, messages, nextId>>
     ELSE IF SanitizedName(chatName.text) = <<>>
     THEN /\ notice' = "Invalid chat name."
          /\ UNCHANGED <<conversations, activeConversationId,
                         rag_conversations, rag_active_chat, messages, nextId>>
     ELSE LET newConv == [id |-> nextId,
                          title |-> SanitizedName(chatName.text),
                          name |-> SanitizedName(chatName.text),
                          hasDocuments |-> FALSE,
                          messages |-> <<>>]
          IN /\ Commit(Append(conversations, newConv), activeConversationId,
                       messages, TRUE)
             /\ nextId' = nextId + 1
             /\ notice' = "none"
  /\ UNCHANGED <<isLoading, uploading, queries, uploads, resets,
                 requestsSent, uploaded>>

\* App.createConversation
createConversation(chatName) ==
  /\ nextId <= MaxId
  /\ IF ~chatName.ok \/ Trim(chatName.text) = <<>>
     THEN /\ notice' = "Chat name is required!"
          /\ UNCHANGED <<conversations, activeConversationId,
                         rag_conversations, rag_active_chat, messages, nextId>>
     ELSE IF SanitizedName(chatName.text) = <<>>
     THEN /\ notice' = "Invalid chat name."
          /\ UNCHANGED <<conversations, activeConversationId,
                         rag_conversations, rag_active_chat, messages, nextId>>
     ELSE LET newConv == [id |-> nextId,
                          title |-> SanitizedName(chatName.text),
                          name |-> SanitizedName(chatName.text),
                          hasDocuments |-> FALSE,
                          messages |-> <<>>]
          IN /\ Commit(Append(conversations, newConv), newConv.id,
                       messages, TRUE)
             /\ nextId' = nextId + 1
             /\ notice' = "none"
  /\ UNCHANGED <<isLoading, uploading, queries, uploads, resets,
                 requestsSent, uploaded>>

\* mutant of deleteConversation: the guard on the length is missing; with
\* nothing left, filtered[0].id throws after setConversations(filtered)
deleteConversation_noGuard(id) ==
  /\ LET filtered == FilterOut(conversations, id)
     IN /\ Commit(filtered,
                  IF activeConversationId = id /\ filtered # <<>>
                  THEN filtered[1].id
                  ELSE activeConversationId,
                  messages, TRUE)
        /\ notice' = "none"
  /\ UNCHANGED <<isLoading, uploading, queries, uploads, resets, nextId,
                 requestsSent, uploaded>>

\* mutant of deleteConversation: the active id is not re-pointed
deleteConversation_keepActive(id) ==
  /\ IF Len(conversations) = 1
     THEN /\ notice' = "Cannot delete the last conversation"
          /\ UNCHANGED <<conversations, activeConversationId,
                         rag_conversations, rag_active_chat, messages>>
     ELSE /\ Commit(FilterOut(conversations, id), activeConversationId,
                    messages, TRUE)
          /\ notice' = "none"
  /\ UNCHANGED <<isLoading, uploading, queries, uploads, resets, nextId,
                 requestsSent, uploaded>>

\* App.deleteConversation; the function is modelled also for the collection
\* of one conversation, where the sidebar renders no delete button
deleteConversation(id) ==
  /\ IF Len(conversations) = 1
     THEN /\ notice' = "Cannot delete the last conversation"
          /\ UNCHANGED <<conversations, activeConversationId,
                         rag_conversations, rag_active_chat, messages>>
     ELSE LET filtered == FilterOut(conversations, id)
          IN /\ Commit(filtered,
                       IF activeConversationId = id THEN filtered[1].id
                       ELSE activeConversationId,
                       messages, TRUE)
             /\ notice' = "none"
  /\ UNCHANGED <<isLoading, uploading, queries, uploads, resets, nextId,
                 requestsSent, uploaded>>

\* App: onClick={() => setActiveConversationId(conv.id)} of a sidebar entry
setActiveConversationId(id) ==
  /\ Commit(conversations, id, messages, id # activeConversationId)
  /\ notice' = "none"
  /\ UNCHANGED <<isLoading, uploading, queries, uploads, resets, nextId,
                 requestsSent, uploaded>>

\* mutant of SendBlocked: hasDocuments is not looked at
SendBlocked_noDocuments(input) ==
  \/ Trim(input) = <<>>
  \/ isLoading

\* mutant of SendBlocked: isLoading is not looked at
SendBlocked_noLoading(input) ==
  \/ Trim(input) = <<>>
  \/ ~HasDocumentsProp(conversations, activeConversationId)

\* the guard of handleSend: !input.trim() || !hasDocuments || isLoading
SendBlocked(input) ==
  \/ Trim(input) = <<>>
  \/ ~HasDocumentsProp(conversations, activeConversationId)
  \/ isLoading

RemoveAt(seq, i) == SubSeq(seq, 1, i - 1) \o SubSeq(seq, i + 1, Len(seq))

\* ChatWindow.handleSend up to the await of axios.post('/query'); input is
\* the text in the textarea
handleSend(input) ==
  /\ Len(InitialMessages(conversations, activeConversationId)) < MaxMsgs
  /\ requestsSent < MaxRequests
  /\ IF SendBlocked(input)
     THEN UNCHANGED <<conversations, activeConversationId, rag_conversations,
                      rag_active_chat, messages, isLoading, queries,
                      requestsSent>>
     ELSE LET userMessage == UserMessage(Trim(input))
              chatId == activeConversationId
          IN /\ Commit(AppendMessage(conversations, chatId, userMessage),
                       activeConversationId,
                       Append(messages, userMessage), TRUE)
             /\ isLoading' = TRUE
             /\ queries' = Append(queries,
                  [chatId |-> chatId,
                   chatName |-> ChatNameProp(conversations, chatId),
                   userMessage |-> userMessage])
             /\ requestsSent' = requestsSent + 1
  /\ notice' = "none"
  /\ UNCHANGED <<uploading, uploads, resets, nextId, uploaded>>

\* ChatWindow.handleSend after the await: the response arrived (try block)
querySucceeds(i) ==
  LET q == queries[i]
      botMessage == BotMessage(Str_answer)
  IN /\ Commit(AppendMessage(conversations, q.chatId, botMessage),
               activeConversationId, Append(messages, botMessage), TRUE)
     /\ isLoading' = FALSE
     /\ queries' = RemoveAt(queries, i)
     /\ notice' = "none"
     /\ UNCHANGED <<uploading, uploads, resets, nextId, requestsSent, uploaded>>

\* mutant of queryFails: the finally block does not clear isLoading
queryFails_keepLoading(i) ==
  LET q == queries[i]
      errorMessage == ErrorMessage(Str_error)
  IN /\ Commit(AppendMessage(conversations, q.chatId, errorMessage),
               activeConversationId, Append(messages, errorMessage), TRUE)
     /\ isLoading' = isLoading
     /\ queries' = RemoveAt(queries, i)
     /\ notice' = "none"
     /\ UNCHANGED <<uploading, uploads, resets, nextId, requestsSent, uploaded>>

\* ChatWindow.handleSend after the await: the request failed (catch block)
queryFails(i) ==
  LET q == queries[i]
      errorMessage == ErrorMessage(Str_error)
  IN /\ Commit(AppendMessage(conversations, q.chatId, errorMessage),
               activeConversationId, Append(messages, errorMessage), TRUE)
     /\ isLoading' = FALSE
     /\ queries' = RemoveAt(queries, i)
     /\ notice' = "none"
     /\ UNCHANGED <<uploading, uploads, resets, nextId, requestsSent, uploaded>>

\* mutant of handleClearChat: the answer to window.confirm is not looked at
handleClearChat_noConfirm(confirmed) ==
  /\ messages # <<>>
  /\ messages' = <<>>
  /\ notice' = "none"
  /\ UNCHANGED <<conversations, activeConversationId, rag_conversations,
                 rag_active_chat, isLoading, uploading, queries, uploads,
                 resets, nextId, requestsSent, uploaded>>

\* ChatWindow.handleClearChat; the button is disabled while nothing is shown
handleClearChat(confirmed) ==
  /\ messages # <<>>
  /\ messages' = IF confirmed THEN <<>> ELSE messages
  /\ notice' = "none"
  /\ UNCHANGED <<conversations, activeConversationId, rag_conversations,
                 rag_active_chat, isLoading, uploading, queries, uploads,
                 resets, nextId, requestsSent, uploaded>>

\* FileUploader.handleFileChange (variant 'icon') and uploadFile up to the
\* await of axios.post('/upload'); the file input is disabled while uploading.
\* onUploadSuccess is the handleUploadSuccess of the current render of App:
\* it reads the conversations and activeConversationId of that render
handleFileChange(selectedFile) ==
  /\ ~uploading
  /\ requestsSent < MaxRequests
  /\ IF selectedFile
     THEN /\ uploading' = TRUE
          /\ requestsSent' = requestsSent + 1
          /\ uploads' = Append(uploads,
               [chatId |-> activeConversationId,
                chatName |-> ChatNameProp(conversations, activeConversationId),
                conversations |-> conversations,
                activeConversationId |-> activeConversationId])
     ELSE UNCHANGED <<uploading, uploads, requestsSent>>
  /\ notice' = "none"
  /\ UNCHANGED <<conversations, activeConversationId, rag_conversations,
                 rag_active_chat, messages, isLoading, queries, resets, nextId,
                 uploaded>>

\* App.handleUploadSuccess, as called by the upload that captured it
handleUploadSuccess(u) ==
  Commit(MarkUploaded(u.conversations, u.activeConversationId),
         activeConversationId, messages, TRUE)

\* FileUploader.uploadFile after the await: the response arrived
uploadSucceeds(i) ==
  /\ handleUploadSuccess(uploads[i])
  /\ uploading' = FALSE
  /\ uploads' = RemoveAt(uploads, i)
  /\ uploaded' = uploaded \cup {uploads[i].chatId}
  /\ notice' = "none"
  /\ UNCHANGED <<isLoading, queries, resets, nextId, requestsSent>>

\* FileUploader.uploadFile after the await: the request failed
uploadFails(i) ==
  /\ uploading' = FALSE
  /\ uploads' = RemoveAt(uploads, i)
  /\ notice' = "Error uploading file."
  /\ UNCHANGED <<conversations, activeConversationId, rag_conversations,
                 rag_active_chat, messages, isLoading, queries, resets, nextId,
                 requestsSent, uploaded>>

\* App.handleResetSystem up to the await of axios.post('/reset')
handleResetSystem(confirmed) ==
  /\ Len(resets) < MaxResets
  /\ requestsSent < MaxRequests
  /\ requestsSent' = IF confirmed THEN requestsSent + 1 ELSE requestsSent
  /\ resets' = IF confirmed
               THEN Append(resets,
                      [chat_id |-> activeConversationId,
                       conversations |-> conversations,
                       activeConversationId |-> activeConversationId])
               ELSE resets
  /\ notice' = "none"
  /\ UNCHANGED <<conversations, activeConversationId, rag_conversations,
                 rag_active_chat, messages, isLoading, uploading, queries,
                 uploads, nextId, uploaded>>

\* App.handleResetSystem after the await: the response arrived
resetSucceeds(i) ==
  LET r == resets[i]
  IN /\ Commit(ResetConversation(r.conversations, r.activeConversationId),
               activeConversationId, messages, TRUE)
     /\ resets' = RemoveAt(resets, i)
     /\ notice' = "none"
     /\ UNCHANGED <<isLoading, uploading, queries, uploads, nextId,
                    requestsSent, uploaded>>

\* App.handleResetSystem after the await: the request failed (catch block)
resetFails(i) ==
  /\ resets' = RemoveAt(resets, i)
  /\ notice' = "Failed to reset"
  /\ UNCHANGED <<conversations, activeConversationId, rag_conversations,
                 rag_active_chat, messages, isLoading, uploading, queries,
                 uploads, nextId, requestsSent, uploaded>>

\* The page is loaded with the localStorage items saved and savedActive: App,
\* ChatWindow and FileUploader are constructed, the effects of App save what
\* was constructed.  With nothing to take the active id from,
\* conversations[0].id throws and nothing is constructed
loadPage(saved, savedActive) ==
  LET convs == LoadConversations(saved, nextId)
  IN /\ convs # <<>> \/ savedActive.item # 0
     /\ LET active == LoadActive(savedActive, convs)
        IN /\ conversations' = convs
           /\ activeConversationId' = active
           /\ rag_conversations' = JsonStringify(convs)
           /\ rag_active_chat' = ItemOfId(active)
           /\ messages' = InitialMessages(convs, active)
     /\ isLoading' = FALSE
     /\ uploading' = FALSE
     /\ queries' = <<>>
     /\ uploads' = <<>>
     /\ resets' = <<>>
     /\ notice' = "none"
     /\ UNCHANGED <<nextId, requestsSent, uploaded>>

\* The page is loaded again from what the effects saved; the continuations
\* of the requests in flight are gone
reload == loadPage(rag_conversations, rag_active_chat)

Next ==
  \/ \E chatName \in PromptResults : createConversation(chatName)
  \/ \E id \in Ids(conversations) : deleteConversation(id)
  \/ \E id \in Ids(conversations) : setActiveConversationId(id)
  \/ \E input \in Inputs : handleSend(input)
  \/ \E i \in 1..Len(queries) : querySucceeds(i)
  \/ \E i \in 1..Len(queries) : queryFails(i)
  \/ \E confirmed \in BOOLEAN : handleClearChat(confirmed)
  \/ \E selectedFile \in BOOLEAN : handleFileChange(selectedFile)
  \/ \E i \in 1..Len(uploads) : uploadSucceeds(i)
  \/ \E i \in 1..Len(uploads) : uploadFails(i)
  \/ \E confirmed \in BOOLEAN : handleResetSystem(confirmed)
  \/ \E i \in 1..Len(resets) : resetSucceeds(i)
  \/ \E i \in 1..Len(resets) : resetFails(i)
  \/ reload

Spec == Init /\ [][Next]_vars

-----------------------------------------------------------------------------
\* A session that starts from what an earlier session saved: the default
\* conversation, to which a file was uploaded.

InitDocs ==
  /\ conversations = <<[DefaultConversation(1) EXCEPT !.hasDocuments = TRUE]>>
  /\ activeConversationId = 1
  /\ rag_conversations = JsonStringify(conversations)
  /\ rag_active_chat = ItemOfId(activeConversationId)
  /\ messages = <<>>
  /\ isLoading = FALSE
  /\ uploading = FALSE
  /\ queries = <<>>
  /\ uploads = <<>>
  /\ resets = <<>>
  /\ nextId = 2
  /\ notice = "none"
  /\ requestsSent = 0
  /\ uploaded = {1}

SpecDocs == InitDocs /\ [][Next]_vars

-----------------------------------------------------------------------------
\* Create and delete alone, from valid states with one or two conversations:
\* the default one and one named "b", each without documents, with documents,
\* or with documents and a question that was answered, failed, or was left
\* without reply by a reload.

StoredHistories ==
  {<<>>,
   <<UserMessage(<<"h", "i">>)>>,
   <<UserMessage(<<"h", "i">>), BotMessage(Str_answer)>>,
   <<UserMessage(<<"h", "i">>), ErrorMessage(Str_error)>>}

InitCD ==
  /\ \E k \in 1..2 :
       \E hd \in [1..k -> BOOLEAN], history \in [1..k -> StoredHistories] :
         conversations =
           [i \in 1..k |->
              [id |-> i,
               title |-> IF i = 1 THEN Str_NewChat ELSE <<"b">>,
               name |-> IF i = 1 THEN Str_default ELSE <<"b">>,
               hasDocuments |-> hd[i],
               messages |-> IF hd[i] THEN history[i] ELSE <<>>]]
  /\ activeConversationId \in Ids(conversations)
  /\ rag_conversations = JsonStringify(conversations)
  /\ rag_active_chat = ItemOfId(activeConversationId)
  /\ messages = InitialMessages(conversations, activeConversationId)
  /\ isLoading = FALSE
  /\ uploading = FALSE
  /\ queries = <<>>
  /\ uploads = <<>>
  /\ resets = <<>>
  /\ nextId = Len(conversations) + 1
  /\ notice = "none"
  /\ requestsSent = 0
  /\ uploaded = {conversations[i].id : i \in {j \in 1..Len(conversations) :
                                              conversations[j].hasDocuments}}

NextCD ==
  \/ \E chatName \in PromptResults : createConversation(chatName)
  \/ \E id \in Ids(conversations) : deleteConversation(id)

SpecCD == InitCD /\ [][NextCD]_vars

-----------------------------------------------------------------------------
\* Properties.

MessagesOf(convs, id) == convs[FindIndex(convs, id)].messages
HasDocumentsOf(convs, id) == convs[FindIndex(convs, id)].hasDocuments

\* C1: under create and delete alone the collection is never empty and the
\* active id is the id of a conversation of the collection.
CreateDeleteKeepsActive ==
  /\ Len(conversations) >= 1
  /\ \E i \in 1..Len(conversations) : conversations[i].id = activeConversationId

\* C1 witness: the conversation named "a" was created, which made it the
\* active one, and then the default conversation was deleted.
WitnessC1 ==
  /\ Len(conversations) = 1
  /\ conversations[1].id = 2
  /\ conversations[1].name = <<"a">>
  /\ activeConversationId = 2

\* C2: in every reachable state at least one conversation exists and the
\* active id refers to a conversation of the collection.
ConversationInvariant ==
  /\ conversations # <<>>
  /\ activeConversationId \in Ids(conversations)

\* C2 failing run: a request captured the collection, a conversation was
\* created, and the continuation of the request wrote the captured collection.
\* (ConversationInvariant states the claim; TLC reports the run.)

IsExtensionByOne(old, new) ==
  /\ Len(new) = Len(old) + 1
  /\ SubSeq(new, 1, Len(old)) = old

\* the step completes the query queries[i] with a reply
Replies(i) == querySucceeds(i) \/ queryFails(i)

\* C3: a switch of the active conversation leaves the requests in flight
\* alone, and the reply to a query issued for conversation A is appended to
\* the stored messages of A (when A is still in the collection); every other
\* conversation is left as it was.
RepliesGoToIssuingConversation ==
  [][ /\ (\E id \in Ids(conversations) : setActiveConversationId(id))
           => (queries' = queries /\ isLoading' = isLoading)
      /\ \A i \in 1..Len(queries) :
           Replies(i) =>
             /\ Len(conversations') = Len(conversations)
             /\ \A k \in 1..Len(conversations) :
                  IF conversations[k].id = queries[i].chatId
                  THEN /\ conversations'[k].id = conversations[k].id
                       /\ IsExtensionByOne(conversations[k].messages,
                                           conversations'[k].messages)
                       /\ ~conversations'[k].messages[
                              Len(conversations'[k].messages)].isUser
                  ELSE conversations'[k] = conversations[k]
    ]_vars

\* C3 witness: the reply to the query of conversation 1 arrived while the
\* other conversation was active: conversation 1 stores question and reply,
\* the active conversation stores nothing and the window shows the reply.
WitnessC3 ==
  /\ Len(conversations) = 2
  /\ activeConversationId = conversations[2].id
  /\ conversations[2].messages = <<>>
  /\ Len(conversations[1].messages) = 2
  /\ conversations[1].messages[1].isUser
  /\ ~conversations[1].messages[2].isUser
  /\ messages = <<conversations[1].messages[2]>>
  /\ queries = <<>>

\* Create, delete, select, query and upload, the events C4 names, in a
\* session that starts with documents in the default conversation.
NextUQ ==
  \/ \E chatName \in PromptResults : createConversation(chatName)
  \/ \E id \in Ids(conversations) : deleteConversation(id)
  \/ \E id \in Ids(conversations) : setActiveConversationId(id)
  \/ \E input \in Inputs : handleSend(input)
  \/ \E i \in 1..Len(queries) : querySucceeds(i)
  \/ \E i \in 1..Len(queries) : queryFails(i)
  \/ \E selectedFile \in BOOLEAN : handleFileChange(selectedFile)
  \/ \E i \in 1..Len(uploads) : uploadSucceeds(i)
  \/ \E i \in 1..Len(uploads) : uploadFails(i)

SpecUQ == InitDocs /\ [][NextUQ]_vars

\* C4: when the answer to a query arrives and the conversation the query was
\* issued for is in the collection, its stored messages end with the user
\* message of the query followed by the answer.
AnswerFollowsQuestion ==
  [][ \A i \in 1..Len(queries) :
        (querySucceeds(i) /\ queries[i].chatId \in Ids(conversations'))
          => LET m == MessagesOf(conversations', queries[i].chatId)
             IN /\ Len(m) >= 2
                /\ m[Len(m) - 1] = queries[i].userMessage
                /\ m[Len(m)] = BotMessage(Str_answer)
    ]_vars

\* C5: across a step the stored messages of a conversation that stays in the
\* collection are unchanged, extended by one message, or emptied by the
\* successful reset of that conversation.
MessagesAppendOnly ==
  [][ \A k \in 1..Len(conversations) :
        conversations[k].id \in Ids(conversations')
          => LET old == conversations[k].messages
                 new == MessagesOf(conversations', conversations[k].id)
             IN \/ new = old
                \/ IsExtensionByOne(old, new)
                \/ /\ new = <<>>
                   /\ \E i \in 1..Len(resets) :
                        /\ resetSucceeds(i)
                        /\ resets[i].chat_id = conversations[k].id
    ]_vars

\* C6: a conversation enters the collection with hasDocuments false;
\* hasDocuments becomes true only when an upload for that conversation
\* succeeds, and becomes false again only when a reset of that conversation
\* succeeds.
HasDocumentsOnlyResetClears ==
  [][ /\ \A k \in 1..Len(conversations') :
           conversations'[k].id \notin Ids(conversations)
             => \/ ~conversations'[k].hasDocuments
                \/ conversations'[k].id \in uploaded'
      /\ \A k \in 1..Len(conversations) :
           conversations[k].id \in Ids(conversations')
             => LET old == conversations[k].hasDocuments
                    new == HasDocumentsOf(conversations', conversations[k].id)
                IN /\ (~old /\ new)
                        => \E i \in 1..Len(uploads) :
                             /\ uploadSucceeds(i)
                             /\ uploads[i].chatId = conversations[k].id
                   /\ (old /\ ~new)
                        => \E i \in 1..Len(resets) :
                             /\ resetSucceeds(i)
                             /\ resets[i].chat_id = conversations[k].id
    ]_vars

\* C7: a query is sent only for a conversation whose hasDocuments is true at
\* that moment, and only after an upload for it succeeded; when an upload for
\* a conversation succeeds its hasDocuments is true, and if it is the active
\* one and no query is in flight a non-empty text is not blocked.
UploadGating ==
  [][ /\ Len(queries') > Len(queries)
           => /\ HasDocumentsProp(conversations,
                                  queries'[Len(queries')].chatId)
              /\ queries'[Len(queries')].chatId \in uploaded
      /\ \A i \in 1..Len(uploads) :
           uploadSucceeds(i) =>
             /\ \A k \in 1..Len(conversations') :
                  conversations'[k].id = uploads[i].chatId
                    => conversations'[k].hasDocuments
             /\ (/\ uploads[i].chatId \in Ids(conversations')
                 /\ activeConversationId' = uploads[i].chatId
                 /\ ~isLoading')
                  => ~(SendBlocked(<<"h", "i">>))'
    ]_vars

\* C7 witness: a query is in flight for a conversation with documents while
\* another conversation of the collection has none.
WitnessC7 ==
  /\ Len(queries) = 1
  /\ queries[1].chatId \in uploaded
  /\ HasDocumentsProp(conversations, queries[1].chatId)
  /\ \E k \in 1..Len(conversations) :
       /\ ~conversations[k].hasDocuments
       /\ conversations[k].id \notin uploaded

\* C8: a reset that was confirmed on a conversation with messages and with
\* hasDocuments true leaves that conversation, when the remote call succeeds,
\* with hasDocuments false and without messages; when the remote call fails it
\* changes no conversation and the failure is shown.
ResetSemantics ==
  [][ \A i \in 1..Len(resets) :
        /\ (/\ resetSucceeds(i)
            /\ HasDocumentsProp(resets[i].conversations, resets[i].chat_id)
            /\ InitialMessages(resets[i].conversations, resets[i].chat_id)
                 # <<>>)
             => /\ resets[i].chat_id \in Ids(conversations')
                /\ ~HasDocumentsOf(conversations', resets[i].chat_id)
                /\ MessagesOf(conversations', resets[i].chat_id) = <<>>
        /\ resetFails(i)
             => /\ conversations' = conversations
                /\ activeConversationId' = activeConversationId
                /\ notice' = "Failed to reset"
    ]_vars

\* C8 witness: the reset of the only conversation there ever was has failed;
\* the conversation still has its documents and its two messages.
WitnessC8 ==
  /\ notice = "Failed to reset"
  /\ nextId = 2
  /\ conversations[1].hasDocuments
  /\ Len(conversations[1].messages) = 2

\* C9: a failing query appends one message to the conversation it was issued
\* for, an assistant message with isError true, after the messages stored
\* there (the user message is not taken back), changes no other conversation
\* and clears isLoading.
ErrorDowngrade ==
  [][ \A i \in 1..Len(queries) :
        queryFails(i) =>
          /\ ~isLoading'
          /\ Len(queries') = Len(queries) - 1
          /\ Len(conversations') = Len(conversations)
          /\ \A k \in 1..Len(conversations) :
               IF conversations[k].id = queries[i].chatId
               THEN LET new == conversations'[k].messages
                    IN /\ IsExtensionByOne(conversations[k].messages, new)
                       /\ ~new[Len(new)].isUser
                       /\ IsError(new[Len(new)])
               ELSE conversations'[k] = conversations[k]
    ]_vars

\* C9 witness: a conversation stores the user message followed by the error
\* message and nothing is in flight.
WitnessC9 ==
  /\ ~isLoading
  /\ queries = <<>>
  /\ \E k \in 1..Len(conversations) :
       /\ conversations[k].hasDocuments
       /\ Len(conversations[k].messages) = 2
       /\ conversations[k].messages[1].isUser
       /\ IsError(conversations[k].messages[2])

\* C10: no two queries in flight were issued for the same conversation.
OneQueryPerConversation ==
  \A i, j \in 1..Len(queries) :
    queries[i].chatId = queries[j].chatId => i = j

\* C10 witness: a query is in flight for the active conversation, which has
\* documents, so that only isLoading blocks the next one.
WitnessC10 ==
  /\ isLoading
  /\ Len(queries) = 1
  /\ queries[1].chatId = activeConversationId
  /\ HasDocumentsProp(conversations, activeConversationId)
  /\ SendBlocked(<<"h", "i">>)

\* C11: query gating is per conversation: when the active conversation has
\* documents and no query of its own in flight, a query with non-empty text
\* can be issued for it, whatever is in flight for other conversations.
QueryGatingPerConversation ==
  ( /\ HasDocumentsProp(conversations, activeConversationId)
    /\ \A i \in 1..Len(queries) : queries[i].chatId # activeConversationId )
  => ~SendBlocked(<<" ", "h", "i">>)

\* C11 failing run: both conversations have documents, a query is sent in
\* one of them and the other one is selected while the reply is awaited.
\* (QueryGatingPerConversation states the claim; TLC reports the run.)

-----------------------------------------------------------------------------
\* deleteConversation as a function: called with any id, also one that names
\* no conversation of the collection, from the states of InitCD.

DeleteArgs == 1..(MaxId + 1)

NextDelete ==
  \/ \E chatName \in PromptResults : createConversation(chatName)
  \/ \E id \in DeleteArgs : deleteConversation(id)

SpecDelete == InitCD /\ [][NextDelete]_vars

\* C12: deleteConversation(id) on a collection of exactly one conversation
\* changes neither the collection nor the active id, for every id (the id of
\* that conversation or any other).
LastConversationGuard ==
  [][\A id \in DeleteArgs :
       (Len(conversations) = 1 /\ deleteConversation(id))
       => /\ conversations' = conversations
          /\ activeConversationId' = activeConversationId]_vars

\* C12 witness: the delete was refused on a collection of one conversation
\* that has documents and a stored history.
WitnessC12 ==
  /\ Len(conversations) = 1
  /\ notice = "Cannot delete the last conversation"
  /\ conversations[1].hasDocuments
  /\ conversations[1].messages # <<>>
  /\ activeConversationId = conversations[1].id

-----------------------------------------------------------------------------
\* createConversation over many raw titles: every text of at most MaxTitleLen
\* characters drawn from a letter, the space, the tab, a hyphen and a
\* character outside the class, two longer texts, and the name the default
\* conversation already carries.

MaxTitleLen == 3

TitleChars == {"a", " ", "\t", "-", "#"}

Str_Report == <<" ", "R", "e", "p", "o", "r", "t", " ", "#", "1", "!", " ">>
Str_Hashes == <<"#", "#", "#">>

RawTitles ==
  UNION {[1..n -> TitleChars] : n \in 0..MaxTitleLen} \cup
  {Str_Report, Str_Hashes, Str_default}

\* results of prompt('Enter a name for this chat:')
TitlePrompts ==
  {[ok |-> FALSE, text |-> <<>>]} \cup
  {[ok |-> TRUE, text |-> t] : t \in RawTitles}

NextTitles ==
  \/ \E chatName \in TitlePrompts : createConversation(chatName)
  \/ \E id \in Ids(conversations) : deleteConversation(id)

SpecTitles == Init /\ [][NextTitles]_vars

\* the characters the claim keeps: alphanumerics, the space, hyphen, underscore
IsClaimedNameChar(ch) == IsNameChar(ch) /\ (IsSpace(ch) => ch = " ")

\* the title the claim stores: surrounding white space trimmed, every other
\* character removed
ClaimedTitle(raw) == SelectSeq(Trim(raw), IsClaimedNameChar)

\* C14: for every raw title that is not blank, createConversation stores the
\* raw title with the surrounding white space trimmed and every character
\* other than alphanumerics, spaces, hyphens and underscores removed, and
\* rejects the raw title when that form is empty.
TitleSanitization ==
  [][\A p \in TitlePrompts :
       (createConversation(p) /\ p.ok /\ Trim(p.text) # <<>>)
       => IF ClaimedTitle(p.text) = <<>>
          THEN conversations' = conversations
          ELSE /\ Len(conversations') = Len(conversations) + 1
               /\ conversations'[Len(conversations')].title =
                    ClaimedTitle(p.text)]_vars

\* C14 failing run: a raw title with a tab between two letters is stored
\* with the tab.  (TitleSanitization states the claim; TLC reports the run.)

-----------------------------------------------------------------------------
\* the text is empty or white space only
IsBlank(s) == \A i \in 1..Len(s) : IsSpace(s[i])

\* nothing is left of the text once its surrounding white space and the
\* characters outside the class are taken away
SanitizesToEmpty(s) ==
  LET nonSpace == {i \in 1..Len(s) : ~IsSpace(s[i])}
  IN \A i \in 1..Len(s) :
       ((\E j \in nonSpace : j <= i) /\ (\E k \in nonSpace : k >= i))
       => ~IsNameChar(s[i])

NothingMutatedNothingSent ==
  UNCHANGED <<conversations, activeConversationId, rag_conversations,
              rag_active_chat, queries, uploads, resets, requestsSent>>

\* C15: a validation error stops the operation before any state mutation or
\* network call: createConversation with a cancelled, empty or blank title or
\* a title that sanitizes to empty, a file selection without a file, and a
\* send with blank text or without documents leave the collection and the
\* active id unchanged and send no request.
ValidationStopsOperation ==
  [][/\ \A p \in PromptResults :
          (createConversation(p) /\
             (~p.ok \/ IsBlank(p.text) \/ SanitizesToEmpty(p.text)))
          => NothingMutatedNothingSent
     /\ handleFileChange(FALSE) => NothingMutatedNothingSent
     /\ \A input \in Inputs :
          (handleSend(input) /\
             (IsBlank(input) \/
              ~HasDocumentsProp(conversations, activeConversationId)))
          => NothingMutatedNothingSent]_vars

\* C15 witness: a title made of characters outside the class was refused
\* while an upload was in flight, which stayed as it was.
WitnessC15 ==
  /\ notice = "Invalid chat name."
  /\ Len(conversations) = 1
  /\ Len(uploads) = 1
  /\ requestsSent = 1

\* C16: a createConversation that passes validation appends exactly one
\* conversation at the end of the collection, with an id no conversation of
\* the collection has, title and index name equal to the sanitized title,
\* hasDocuments false and no messages, makes it the active one, and leaves
\* the conversations that existed as they were.
CreateAppendsOne ==
  [][\A p \in PromptResults :
       (createConversation(p) /\ p.ok /\ ~IsBlank(p.text) /\
          ~SanitizesToEmpty(p.text))
       => LET new == conversations'[Len(conversations')]
          IN /\ IsExtensionByOne(conversations, conversations')
             /\ new.id \notin Ids(conversations)
             /\ new.title = SanitizedName(p.text)
             /\ new.name = SanitizedName(p.text)
             /\ new.hasDocuments = FALSE
             /\ new.messages = <<>>
             /\ activeConversationId' = new.id]_vars

\* C16 witness: the conversation "a" was created next to a default
\* conversation that has documents and a stored question, and is active.
WitnessC16 ==
  /\ Len(conversations) = 2
  /\ conversations[1].hasDocuments
  /\ conversations[1].messages # <<>>
  /\ conversations[2] = [id |-> 2, title |-> <<"a">>, name |-> <<"a">>,
                         hasDocuments |-> FALSE, messages |-> <<>>]
  /\ activeConversationId = 2
  /\ messages = <<>>

\* C17: write-through persistence: in every reachable state, so after every
\* operation that changes the collection or the active id, the persisted
\* collection is the text of the collection in memory (and reads back as
\* it), and the persisted active id is the active id in memory.
WriteThroughPersistence ==
  /\ rag_conversations = JsonStringify(conversations)
  /\ rag_conversations.json = "ok"
  /\ JsonParse(rag_conversations.doc) = conversations
  /\ rag_active_chat = ItemOfId(activeConversationId)

\* C17 witness: a conversation was created, an upload for it succeeded and an
\* answer to a question in it was appended, and the storage holds all of it.
WitnessC17 ==
  /\ Len(conversations) = 2
  /\ activeConversationId = 2
  /\ conversations[2].hasDocuments
  /\ Len(conversations[2].messages) = 2
  /\ rag_conversations.doc[2][4] = <<"hasDocuments", TRUE>>
  /\ Len(rag_conversations.doc[2][5][2]) = 2
  /\ rag_active_chat.item = 2

\* C18: persistence round trip: starting the application again from what
\* was saved yields the same collection, field for field and in the same
\* order, messages and hasDocuments included, and the same active id.
PersistenceRoundTrip ==
  [][reload => /\ conversations' = conversations
               /\ activeConversationId' = activeConversationId
               /\ \A i \in 1..Len(conversations) :
                    /\ DOMAIN conversations'[i] = DOMAIN conversations[i]
                    /\ conversations'[i].messages = conversations[i].messages
                    /\ conversations'[i].hasDocuments =
                         conversations[i].hasDocuments]_vars

\* C18 witness: the page was loaded again while the reply to the only
\* question was awaited: the question is stored and shown, nothing is in
\* flight, and the one upload and the one query are the only requests sent.
WitnessC18 ==
  /\ requestsSent = 2
  /\ uploaded = {1}
  /\ queries = <<>>
  /\ uploads = <<>>
  /\ resets = <<>>
  /\ ~isLoading
  /\ InitialMessages(conversations, 1) = <<UserMessage(<<"h", "i">>)>>
  /\ messages = <<UserMessage(<<"h", "i">>)>>
  /\ conversations[1].hasDocuments

-----------------------------------------------------------------------------
\* Loading the page from any content of localStorage: the collection item is
\* absent, unparseable, the text of an empty array, or the text of a
\* collection of one or two conversations of earlier sessions, each with
\* or without documents and with any of the stored histories; the active id
\* item is absent or an id of an earlier session.  The ids 1..MaxId belong
\* to earlier sessions, a fresh id is a later one.

StoredCollections ==
  UNION {
    {[i \in 1..k |->
        [id |-> i,
         title |-> IF i = 1 THEN Str_NewChat ELSE <<"b">>,
         name |-> IF i = 1 THEN Str_default ELSE <<"b">>,
         hasDocuments |-> hd[i],
         messages |-> history[i]]] :
       hd \in [1..k -> BOOLEAN], history \in [1..k -> StoredHistories]} :
    k \in 1..2}

SavedCollections ==
  {[json |-> "absent"], [json |-> "garbage"], JsonStringify(<<>>)} \cup
  {JsonStringify(c) : c \in StoredCollections}

\* item 0: the item is absent
SavedActives == {ItemOfId(id) : id \in 0..MaxId}

InitLoad ==
  /\ conversations = <<DefaultConversation(1)>>
  /\ activeConversationId = 1
  /\ rag_conversations = JsonStringify(conversations)
  /\ rag_active_chat = ItemOfId(activeConversationId)
  /\ messages = <<>>
  /\ isLoading = FALSE
  /\ uploading = FALSE
  /\ queries = <<>>
  /\ uploads = <<>>
  /\ resets = <<>>
  /\ nextId = MaxId + 1
  /\ notice = "none"
  /\ requestsSent = 0
  /\ uploaded = {}

NextLoad ==
  \E saved \in SavedCollections, savedActive \in SavedActives :
    loadPage(saved, savedActive)

SpecLoad == InitLoad /\ [][NextLoad]_vars

\* C19: when the persisted collection is absent, unparseable, or parses to
\* something that is not a non-empty sequence of conversations, the page
\* starts with exactly one default conversation (title "New Chat", index name
\* "default", no documents, no messages), and that conversation is the
\* active one.
CorruptDataFallsBack ==
  [][\A saved \in SavedCollections, savedActive \in SavedActives :
       (loadPage(saved, savedActive) /\
          (saved.json # "ok" \/ JsonParse(saved.doc) = <<>>))
       => /\ Len(conversations') = 1
          /\ conversations'[1].title = Str_NewChat
          /\ conversations'[1].name = Str_default
          /\ conversations'[1].hasDocuments = FALSE
          /\ conversations'[1].messages = <<>>
          /\ activeConversationId' = conversations'[1].id]_vars

\* C19 failing run: the collection item is unparseable and the active id
\* item holds the id of an earlier session.  (CorruptDataFallsBack states the
\* claim; TLC reports the run.)

\* C20: after the user confirmed the clearing, the message sequence of the
\* conversation is empty and its hasDocuments is unchanged, and the sequence
\* stays empty until a message is appended: it is still empty after
\* selecting another conversation and coming back and after loading the page
\* again from the storage.
ClearEmptiesConversation ==
  [][/\ handleClearChat(TRUE)
        => /\ InitialMessages(conversations', activeConversationId') = <<>>
           /\ HasDocumentsProp(conversations', activeConversationId') =
                HasDocumentsProp(conversations, activeConversationId)
     /\ \A id \in Ids(conversations) :
          (setActiveConversationId(id) /\
             InitialMessages(conversations, id) = <<>>)
          => messages' = <<>>
     /\ (reload /\ InitialMessages(conversations, activeConversationId) = <<>>)
          => messages' = <<>>]_vars

\* C20 failing run: a question is asked and the chat is cleared; the stored
\* messages of the conversation are the ones from before the clearing, and
\* they are shown again after the page is loaded or the conversation is
\* selected again.  (ClearEmptiesConversation states the claim; TLC reports
\* the run.)

-----------------------------------------------------------------------------
\* C21: selecting a conversation changes only the active id: the collection
\* (messages, hasDocuments, title and index name of every conversation), the
\* requests in flight and the flags stay as they are; selecting the
\* conversation that is already active changes nothing, so selecting twice
\* is selecting once; and after selecting another conversation the window
\* shows the stored messages of the selected one.
SetActiveChangesOnlyActiveId ==
  [][\A id \in Ids(conversations) :
       setActiveConversationId(id)
       => /\ conversations' = conversations
          /\ activeConversationId' = id
          /\ UNCHANGED <<isLoading, uploading, queries, uploads, resets>>
          /\ id = activeConversationId => messages' = messages
          /\ id # activeConversationId =>
               messages' = InitialMessages(conversations, id)]_vars

\* C21 witness: the default conversation stores a question, a second
\* conversation was created, and the default one was selected again: it is
\* active and the window shows its stored messages.
WitnessC21 ==
  /\ Len(conversations) = 2
  /\ activeConversationId = 1
  /\ conversations[1].id = 1
  /\ conversations[1].messages # <<>>
  /\ conversations[2].messages = <<>>
  /\ messages = conversations[1].messages
  /\ notice = "none"

\* C22: a successful upload response leaves the conversation the file was
\* uploaded to (the one named in the request, a conversation of the
\* collection when the request was sent) in the collection with hasDocuments
\* true, whichever conversation is active when the response arrives and
\* whether or not it had documents before; a failed upload leaves the
\* collection as it is.
UploadMarksRequestConversation ==
  [][\A i \in 1..Len(uploads) :
       /\ (uploadSucceeds(i) /\
             uploads[i].chatId \in Ids(uploads[i].conversations))
          => /\ uploads[i].chatId \in Ids(conversations')
             /\ HasDocumentsOf(conversations', uploads[i].chatId)
       /\ uploadFails(i) => conversations' = conversations]_vars

\* C22 witness: the upload was started in the default conversation, a second
\* conversation was created and became active while it was in flight, and
\* the response arrived: the default conversation has documents and is not
\* the active one (the collection written is the one of the request, C2).
WitnessC22 ==
  /\ Len(conversations) = 1
  /\ conversations[1].id = 1
  /\ conversations[1].hasDocuments
  /\ activeConversationId = 2
  /\ uploaded = {1}
  /\ uploads = <<>>
  /\ requestsSent = 1

\* the step leaves the collection, the active id and the window as they are
\* and sends no request
NothingDestroyed ==
  UNCHANGED <<conversations, activeConversationId, rag_conversations,
              rag_active_chat, messages, queries, uploads, resets,
              requestsSent>>

\* C23: delete, reset and clear change state or send a request only after
\* the user confirmed: a step of one of them without a confirmation leaves
\* the collection, the active id and the displayed messages unchanged and
\* sends no request.  deleteConversation asks for no confirmation, so each of
\* its steps is one without.
DestructiveNeedsConfirmation ==
  [][/\ \A id \in Ids(conversations) :
          deleteConversation(id) => NothingDestroyed
     /\ handleResetSystem(FALSE) => NothingDestroyed
     /\ handleClearChat(FALSE) => NothingDestroyed]_vars

\* C23 failing run: a second conversation is created and the delete button
\* of one of the two is clicked.  (DestructiveNeedsConfirmation states the
\* claim; TLC reports the run.)

\* C23 as the code has it: reset and clear act only after the user confirmed
\* (a declined confirmation leaves the collection, the active id and the
\* displayed messages unchanged and sends no request; a confirmed reset sends
\* the request, a confirmed clear empties the window), and delete asks for
\* nothing: the click removes the conversation when there is more than one.
ResetAndClearNeedConfirmation ==
  [][/\ handleResetSystem(FALSE) => NothingDestroyed
     /\ handleClearChat(FALSE) => NothingDestroyed
     /\ handleResetSystem(TRUE) =>
          /\ Len(resets') = Len(resets) + 1
          /\ UNCHANGED <<conversations, activeConversationId, messages>>
     /\ handleClearChat(TRUE) =>
          /\ messages' = <<>>
          /\ UNCHANGED <<conversations, activeConversationId, resets>>
     /\ \A id \in Ids(conversations) :
          (deleteConversation(id) /\ Len(conversations) > 1)
          => id \notin Ids(conversations')]_vars

\* C23 witness: the clearing was confirmed: the window is empty while the
\* active conversation stores messages.
WitnessC23 ==
  /\ activeConversationId \in Ids(conversations)
  /\ InitialMessages(conversations, activeConversationId) # <<>>
  /\ messages = <<>>
  /\ resets = <<>>


\* ---------------------------------------------------------------------
\* C24: in every reachable state no two conversations of the collection
\* carry the same index name (the name sent as chat_name with uploads,
\* queries and resets).
IndexNamesDistinct ==
  \A i, j \in 1..Len(conversations) :
    conversations[i].name = conversations[j].name => i = j


\* ---------------------------------------------------------------------
\* C25: isLoading is true exactly while a query of the page is in flight.
\* It rises only in a handleSend step that sends a query, and every such
\* step raises it; every completion of a query (response or failure) clears
\* it, and while the query has not completed nothing else clears it: the
\* only other step that ends with the flag false is a reload of the page,
\* which builds a new ChatWindow and abandons the request.
LoadingFollowsQuery ==
  [][ /\ isLoading <=> queries # <<>>
      /\ \A input \in Inputs :
           (handleSend(input) /\ queries' # queries) => isLoading'
      /\ (~isLoading /\ isLoading') =>
           \E input \in Inputs :
             /\ handleSend(input)
             /\ Len(queries') = Len(queries) + 1
      /\ \A i \in 1..Len(queries) : Replies(i) => ~isLoading'
      /\ (isLoading /\ ~isLoading') =>
           \/ \E i \in 1..Len(queries) : Replies(i)
           \/ reload ]_vars

\* C25 witness: a query was sent and answered; the answer is stored after
\* the user message and the input is enabled again.
WitnessC25 ==
  /\ ~isLoading
  /\ queries = <<>>
  /\ requestsSent >= 2
  /\ \E k \in 1..Len(conversations) :
       /\ Len(conversations[k].messages) = 2
       /\ conversations[k].messages[1].isUser
       /\ ~conversations[k].messages[2].isUser
       /\ ~IsError(conversations[k].messages[2])


\* ---------------------------------------------------------------------
\* C26: the set of conversation ids changes only in a step of
\* createConversation or deleteConversation; the completion of an upload,
\* a query or a reset neither removes a conversation created in the
\* meantime nor brings back one deleted in the meantime.
IdsChangeOnlyByCreateOrDelete ==
  [][ Ids(conversations') # Ids(conversations) =>
        \/ \E chatName \in PromptResults : createConversation(chatName)
        \/ \E id \in Ids(conversations) : deleteConversation(id) ]_vars


\* ---------------------------------------------------------------------
\* C27: while the displayed messages have not been cleared since the last
\* switch, the list ChatWindow displays is the stored sequence of the
\* active conversation: a step other than handleClearChat that starts with
\* the two equal ends with the two equal. In particular the reply to a
\* query of conversation A is not displayed in the window of a
\* conversation B that became active before the reply arrived.
DisplayedIsStoredOfActive ==
  [][ ( /\ messages = InitialMessages(conversations, activeConversationId)
        /\ ~(\E confirmed \in BOOLEAN : handleClearChat(confirmed)) )
      => messages' = InitialMessages(conversations', activeConversationId')
    ]_vars


\* ---------------------------------------------------------------------
\* C28: in the stored messages of every conversation each assistant message
\* is immediately preceded by a user message (the question it answers),
\* whatever reset, clear or upload completes while the query is in flight.
AssistantFollowsUser ==
  \A k \in 1..Len(conversations) :
    \A n \in 1..Len(conversations[k].messages) :
      ~conversations[k].messages[n].isUser =>
        /\ n > 1
        /\ conversations[k].messages[n - 1].isUser


\* ---------------------------------------------------------------------
\* C29: the title and the index name of every conversation that
\* createConversation made hold at least one character that is not white
\* space, and neither begins nor ends with white space, whatever raw title
\* was accepted.
IsTrimmed(s) ==
  /\ s # <<>>
  /\ ~IsSpace(s[1])
  /\ ~IsSpace(s[Len(s)])

CreatedNamesTrimmed ==
  \A k \in 1..Len(conversations) :
    conversations[k].id # 1 =>
      /\ IsTrimmed(conversations[k].title)
      /\ IsTrimmed(conversations[k].name)


\* ---------------------------------------------------------------------
\* C30: the reply (response or failure) to a query whose conversation was
\* deleted while the query was in flight is dropped: the collection and the
\* active id are as before the reply, what is saved is as before, and
\* isLoading is cleared.
ReplyForDeletedIsDropped ==
  [][ \A i \in 1..Len(queries) :
        (Replies(i) /\ queries[i].chatId \notin Ids(conversations)) =>
          /\ conversations' = conversations
          /\ activeConversationId' = activeConversationId
          /\ rag_conversations' = rag_conversations
          /\ rag_active_chat' = rag_active_chat
          /\ ~isLoading' ]_vars

\* C30 witness: conversation 1 got documents and a query, conversation 2 was
\* created and conversation 1 deleted, and the query of conversation 1 is
\* still in flight: each of its two completions is the step of the claim.
\* (The state after the reply does not tell whether the reply came before
\* or after the deletion, so the witness is the state the reply starts in.)
WitnessC30 ==
  /\ Len(conversations) = 1
  /\ conversations[1].id = 2
  /\ activeConversationId = 2
  /\ Len(queries) = 1
  /\ queries[1].chatId = 1
  /\ queries[1].chatId \notin Ids(conversations)
  /\ 1 \in uploaded
  /\ isLoading
  /\ ENABLED querySucceeds(1)
  /\ ENABLED queryFails(1)

=============================================================================
